---- MODULE Spec2Model ----
(***************************************************************************)
(* The scanner-hit ledger of StockStuff.py: log_scanner_hit (append),      *)
(* archive_daily_logs (rollover), create_permanent_backup and the two      *)
(* SQLite tables, as a state machine over the files and rows they keep.    *)
(*                                                                         *)
(* Numbers: raw inputs are integers in thousandths (4.50 is 4500);         *)
(* round(x, 2) turns them into hundredths (450).  An optional value is a   *)
(* tuple: <<>> is Python's None, <<v>> is the value v, and <<0, 0>> is a   *)
(* key that is missing from a dict.  True and False are <<1>> and <<0>>.   *)
(***************************************************************************)
EXTENDS Integers, Sequences, FiniteSets, TLC

VARIABLES
    today,            \* datetime.now() date, as a day number
    sec,              \* int(time.time()) within the day, as last read
    active,           \* LOGS_DIR/scanner_hits_<date>.json: date -> content
    archive,          \* LOGS_DIR/archive/scanner_hits_<date>.json
    backups,          \* BACKUP_DIR: <<date, day, sec>> -> content
    scanner_hits,     \* table scanner_hits, rows in insertion order
    daily_summaries,  \* table daily_summaries, rows in insertion order
    cloud,            \* CLOUD_BACKUP_URL is set
    pc,               \* per worker thread: where it is in its handler
    loc,              \* per worker thread: the handler's local variables
    ret,              \* what the call that returned last handed back
    used              \* how many calls, date changes and faults have happened

vars == <<today, sec, active, archive, backups, scanner_hits, daily_summaries,
          cloud, pc, loc, ret, used>>

----------------------------------------------------------------------------
(* Bounds of the model *)

MaxAppends == 2      \* append calls (handler or direct) in a behaviour
MaxRollovers == 2    \* archive_daily_logs calls in a behaviour
MaxDayTicks == 2     \* times the date changes
MaxFaults == 1       \* I/O faults (failed write, copy or SQL statement)
MaxRows == 3         \* rows of the scanner_hits table a query is run on

Procs == {1, 2}    \* request threads of the server

RetentionDays == 30

----------------------------------------------------------------------------
(* Python values *)

None == <<>>
Missing == <<0, 0>>
Some(v) == <<v>>
Val(x) == x[1]

\* dict.get(key, default) on an optional field
Get(x, default) == IF x = Missing THEN default ELSE x

\* Python truthiness of a number or None
Truthy(x) == x # None /\ Val(x) # 0

Abs(n) == IF n < 0 THEN 0 - n ELSE n

\* round(x, 2): thousandths to hundredths, ties to even.  A float is rounded
\* by its binary value, so a tie is a tie only when the number is exact in
\* binary (10.125, 12.375); the inputs with a last digit 5 are of that kind
Round2(n) ==
    LET q == n \div 10
        r == n % 10
    IN  IF r < 5 THEN q
        ELSE IF r > 5 THEN q + 1
        ELSE IF q % 2 = 0 THEN q ELSE q + 1

Upper(t) ==
    CASE t = "abc" -> "ABC"
      [] t = "xyz" -> "XYZ"
      [] OTHER -> t

TriggerKinds == {"minute_breakout", "breaking_news", "volume_spike", "breakout_and_news"}
PriceBuckets == {"under_5", "5_to_10", "10_to_15", "15_to_20"}

----------------------------------------------------------------------------
(* Classifier *)

categorize_price(price) ==
    IF ~Truthy(price) THEN "unknown"
    ELSE IF Val(price) < 5000 THEN "penny_stock"
    ELSE IF Val(price) < 10000 THEN "low_priced"
    ELSE IF Val(price) < 15000 THEN "mid_priced"
    ELSE "higher_priced"

categorize_volume_spike(rel_volume) ==
    IF ~Truthy(rel_volume) THEN "normal"
    ELSE IF Val(rel_volume) >= 50000 THEN "extreme_spike"
    ELSE IF Val(rel_volume) >= 20000 THEN "massive_spike"
    ELSE IF Val(rel_volume) >= 10000 THEN "high_spike"
    ELSE IF Val(rel_volume) >= 5000 THEN "moderate_spike"
    ELSE "normal_volume"

\* abs(None) and None >= 50 raise TypeError
SignalRaises(td) ==
    \/ Get(td.change_pct, Some(0)) = None
    \/ Get(td.rel_volume, Some(1000)) = None

Clamp(lo, hi, n) == IF n < lo THEN lo ELSE IF n > hi THEN hi ELSE n

\* the score without the part of the relative volume
SignalStrengthWithoutVolume(td) ==
    LET change_pct == Abs(Val(Get(td.change_pct, Some(0))))
        s1 == IF change_pct >= 15000 THEN 2 ELSE IF change_pct >= 10000 THEN 1 ELSE 0
        s3 == IF Truthy(Get(td.breakout_detected, None))
                 /\ Truthy(Get(td.news_detected, None)) THEN 1 ELSE 0
    IN  Clamp(1, 10, 5 + s1 + s3)

\* the bonus given for either flag
ComboBonusEither(td) ==
    IF Truthy(Get(td.breakout_detected, None))
          \/ Truthy(Get(td.news_detected, None)) THEN 1 ELSE 0

\* lines 665-667: the combined trigger bonus
ComboBonus(td) ==
    IF Truthy(Get(td.breakout_detected, None))
          /\ Truthy(Get(td.news_detected, None)) THEN 1 ELSE 0

calculate_signal_strength(td) ==
    LET change_pct == Abs(Val(Get(td.change_pct, Some(0))))
        rel_volume == Val(Get(td.rel_volume, Some(1000)))
        s1 == IF change_pct >= 15000 THEN 2 ELSE IF change_pct >= 10000 THEN 1 ELSE 0
        s2 == IF rel_volume >= 50000 THEN 2 ELSE IF rel_volume >= 20000 THEN 1 ELSE 0
        s3 == ComboBonus(td)
    IN  Clamp(1, 10, 5 + s1 + s2 + s3)

\* `x or d` for an optional number
OrElse(x, d) == IF Truthy(x) THEN Val(x) ELSE d

assess_risk_level(price, change_pct, rel_volume) ==
    IF ~Truthy(price) THEN "unknown"
    ELSE IF Val(price) < 5000 /\ Abs(OrElse(change_pct, 0)) > 20000 THEN "very_high"
    ELSE IF Val(price) < 5000 \/ Abs(OrElse(change_pct, 0)) > 15000 THEN "high"
    ELSE IF Abs(OrElse(change_pct, 0)) > 10000 \/ OrElse(rel_volume, 1000) > 25000
        THEN "moderate"
    ELSE "low"

----------------------------------------------------------------------------
(* Ledger documents *)

\* the document log_scanner_hit creates when the day has no file yet
FreshLogs(date) ==
    [ log_metadata |-> [date |-> date],
      daily_summary |->
        [ total_hits |-> 0,
          unique_tickers |-> <<>>,
          trigger_types |-> [k \in TriggerKinds |-> 0],
          price_ranges |-> [b \in PriceBuckets |-> 0],
          performance_metrics |->
            [ avg_change_pct |-> <<0, 1>>, max_change_pct |-> 0,
              avg_volume_spike |-> <<0, 1>>, max_volume_spike |-> 0 ] ],
      scanner_hits |-> <<>> ]

\* a file that json.load rejects: what a failed json.dump leaves behind
Corrupt == [corrupt |-> TRUE]

IsDoc(f) == "scanner_hits" \in DOMAIN f

Exists(dir, date) == date \in DOMAIN dir

\* writing, or renaming onto, the file of a date
PutFile(dir, date, content) ==
    [d \in (DOMAIN dir) \cup {date} |-> IF d = date THEN content ELSE dir[d]]

RemoveFiles(dir, dates) == [d \in (DOMAIN dir) \ dates |-> dir[d]]

\* the id counted from zero
NextHitIdZeroBased(logs) == Len(logs.scanner_hits)

\* line 551: the id of the next entry, one past those already in the document
NextHitId(logs) == Len(logs.scanner_hits) + 1

\* the hit_entry of log_scanner_hit, built at the instant `now` = <<day, tick>>
HitEntry(logs, now, ticker, td) ==
    LET price == Get(td.price, Some(0))
        change_pct == Get(td.change_pct, Some(0))
        rel_volume == Get(td.rel_volume, Some(1000))
        trigger_type == Val(Get(td.trigger_type, Some("unknown")))
    IN  [ hit_id |-> NextHitId(logs),
          date |-> now[1],
          timestamp |-> now,
          ticker |-> Upper(ticker),
          price |-> IF Truthy(price) THEN Some(Round2(Val(price))) ELSE None,
          price_change_pct |->
              IF Truthy(change_pct) THEN Some(Round2(Val(change_pct))) ELSE None,
          price_category |-> categorize_price(price),
          relative_volume |->
              IF Truthy(rel_volume) THEN Some(Round2(Val(rel_volume))) ELSE None,
          volume_category |-> categorize_volume_spike(rel_volume),
          primary_trigger |-> trigger_type,
          breakout_detected |-> Get(td.breakout_detected, Some(0)),
          news_detected |-> Get(td.news_detected, Some(0)),
          signal_strength |-> calculate_signal_strength(td),
          risk_level |-> assess_risk_level(price, change_pct, rel_volume) ]

\* (avg + x) / 2 on a fraction <<numerator, denominator>>, in lowest terms
RECURSIVE Reduce(_)
Reduce(q) ==
    IF q[2] > 1 /\ q[1] % 2 = 0 /\ q[2] % 2 = 0
    THEN Reduce(<<q[1] \div 2, q[2] \div 2>>) ELSE q

Blend(avg, x) == Reduce(<<avg[1] + x * avg[2], 2 * avg[2]>>)

Max(a, b) == IF a >= b THEN a ELSE b

Contains(s, x) == \E i \in 1..Len(s) : s[i] = x

\* the ticker appended without the test
AddTickerAlways(tickers, ticker) == Append(tickers, ticker)

\* lines 695-697: the ticker is appended if it is not in the list
AddTicker(tickers, ticker) ==
    IF Contains(tickers, ticker) THEN tickers ELSE Append(tickers, ticker)

BumpTrigger(types, trigger_type) ==
    IF trigger_type \in DOMAIN types
    THEN [types EXCEPT ![trigger_type] = @ + 1] ELSE types

PriceBucket(price) ==
    IF price < 500 THEN "under_5"
    ELSE IF price < 1000 THEN "5_to_10"
    ELSE IF price < 1500 THEN "10_to_15"
    ELSE "15_to_20"

\* the count moved under the test that guards the histogram
CountHitKnownOnly(summary, hit_entry) ==
    IF hit_entry.primary_trigger \in DOMAIN summary.trigger_types
    THEN summary.total_hits + 1 ELSE summary.total_hits

\* line 693: summary["total_hits"] += 1, for every entry
CountHit(summary, hit_entry) == summary.total_hits + 1

update_daily_summary(summary, hit_entry) ==
    LET pm == summary.performance_metrics
        c == hit_entry.price_change_pct
        v == hit_entry.relative_volume
        pm1 == IF c # None
               THEN [pm EXCEPT !.avg_change_pct = Blend(@, Abs(Val(c))),
                               !.max_change_pct = Max(@, Abs(Val(c)))]
               ELSE pm
        pm2 == IF v # None
               THEN [pm1 EXCEPT !.avg_volume_spike = Blend(@, Val(v)),
                                !.max_volume_spike = Max(@, Val(v))]
               ELSE pm1
    IN  [ total_hits |-> CountHit(summary, hit_entry),
          unique_tickers |-> AddTicker(summary.unique_tickers, hit_entry.ticker),
          trigger_types |-> BumpTrigger(summary.trigger_types, hit_entry.primary_trigger),
          price_ranges |->
              IF Truthy(hit_entry.price)
              THEN [summary.price_ranges EXCEPT ![PriceBucket(Val(hit_entry.price))] = @ + 1]
              ELSE summary.price_ranges,
          performance_metrics |-> pm2 ]

\* the summary updated, the entry never appended
AppendHitSummaryOnly(logs, hit_entry) ==
    [logs EXCEPT !.daily_summary = update_daily_summary(@, hit_entry)]

\* logs after `logs["scanner_hits"].append(hit_entry); update_daily_summary(...)`
AppendHit(logs, hit_entry) ==
    [logs EXCEPT !.scanner_hits = Append(@, hit_entry),
                 !.daily_summary = update_daily_summary(@, hit_entry)]

----------------------------------------------------------------------------
(* Requests *)

\* JSON bodies posted to /log-hit
ScenarioA ==
    [ ticker |-> "abc", trigger_type |-> Some("volume_spike"),
      price |-> Some(4500), change_pct |-> Some(22000), rel_volume |-> Some(60000),
      breakout_detected |-> Missing, news_detected |-> Missing ]

UnknownTrigger ==
    [ ticker |-> "XYZ", trigger_type |-> Missing,
      price |-> Missing, change_pct |-> Some(0 - 10125), rel_volume |-> Some(1000),
      breakout_detected |-> Some(1), news_detected |-> Some(1) ]

EmptyTicker == [ScenarioA EXCEPT !.ticker = ""]

NoChangePct ==
    [ ticker |-> "abc", trigger_type |-> Some("breaking_news"),
      price |-> Some(12375), change_pct |-> Missing, rel_volume |-> Some(25001),
      breakout_detected |-> Some(0), news_detected |-> Some(1) ]

Requests == {ScenarioA, UnknownTrigger, EmptyTicker, NoChangePct}

\* calls of log_scanner_hit that do not come from the handler, with the
\* requests the handler would have turned down or failed on
DirectCalls == {EmptyTicker, NoChangePct}

\* the trigger_data dict log_hit builds: data.get(key) is None for a missing key
HandlerTriggerData(data) ==
    [ trigger_type |-> Get(data.trigger_type, Some("unknown")),
      price |-> Get(data.price, None),
      change_pct |-> Get(data.change_pct, None),
      rel_volume |-> Get(data.rel_volume, None),
      breakout_detected |-> Get(data.breakout_detected, Some(0)),
      news_detected |-> Get(data.news_detected, Some(0)) ]

\* a caller of log_scanner_hit passing the fields it has
DirectTriggerData(data) ==
    [ trigger_type |-> data.trigger_type,
      price |-> data.price,
      change_pct |-> data.change_pct,
      rel_volume |-> data.rel_volume,
      breakout_detected |-> data.breakout_detected,
      news_detected |-> data.news_detected ]

----------------------------------------------------------------------------
(* State *)

Idle == [op |-> "none"]

Returned(op, ok, code) == [op |-> op, ok |-> ok, code |-> code]

\* no call has returned yet
Pending == Returned("none", TRUE, 0)

\* what the entry point `via` hands back for log_scanner_hit's True or False
AppendResult(via, ok) ==
    IF via = "log_hit"
    THEN Returned("log_hit", ok, IF ok THEN 200 ELSE 500)
    ELSE Returned("log_scanner_hit", ok, 0)

\* a request is served by the first thread that is free
Free(p) == pc[p] = "idle" /\ \A q \in Procs : q < p => pc[q] # "idle"

Init ==
    /\ today = 1
    /\ sec = 0
    /\ active = <<>>
    /\ archive = <<>>
    /\ backups = <<>>
    /\ scanner_hits = <<>>
    /\ daily_summaries = <<>>
    /\ cloud \in BOOLEAN
    /\ pc = [p \in Procs |-> "idle"]
    /\ loc = [p \in Procs |-> Idle]
    /\ ret = Pending
    /\ used = [appends |-> 0, rollovers |-> 0, days |-> 0, faults |-> 0]

Files == <<active, archive, backups>>
Tables == <<scanner_hits, daily_summaries>>
Clock == <<today, sec>>

----------------------------------------------------------------------------
(* log_scanner_hit *)

\* line 496: datetime.now(), to the microsecond: the day, and within it an
\* instant that is later for every later call
Now == <<today, used.appends + 1>>

\* lines 496-582: read today's document, build the entry, update the copy in
\* memory.  Any exception on the way makes the call return False.
LoadAndBuild(p, via, ticker, td) ==
    LET now == Now
        date == now[1]
        unreadable == Exists(active, date) /\ ~IsDoc(active[date])
        logs == IF Exists(active, date) THEN active[date] ELSE FreshLogs(date)
        hit_entry == HitEntry(logs, now, ticker, td)
    IN  /\ used' = [used EXCEPT !.appends = @ + 1]
        /\ IF unreadable \/ SignalRaises(td)
           THEN /\ ret' = AppendResult(via, FALSE)
                /\ UNCHANGED <<pc, loc>>
           ELSE /\ pc' = [pc EXCEPT ![p] = "write"]
                /\ loc' = [loc EXCEPT ![p] =
                              [ op |-> via, date |-> date,
                                logs |-> AppendHit(logs, hit_entry),
                                hit_entry |-> hit_entry ]]
                /\ UNCHANGED ret
        /\ UNCHANGED <<Files, Tables, Clock, cloud>>

\* the handler without its check of the ticker
LogHitUnchecked(p, data) ==
    /\ Free(p)
    /\ used.appends < MaxAppends
    /\ LoadAndBuild(p, "log_hit", Upper(data.ticker), HandlerTriggerData(data))

\* the /log-hit handler up to its call of log_scanner_hit
LogHit(p, data) ==
    /\ Free(p)
    /\ used.appends < MaxAppends
    /\ IF data.ticker = ""
       THEN /\ ret' = Returned("log_hit", FALSE, 400)
            /\ used' = [used EXCEPT !.appends = @ + 1]
            /\ UNCHANGED <<Files, Tables, Clock, cloud, pc, loc>>
       ELSE LoadAndBuild(p, "log_hit", Upper(data.ticker), HandlerTriggerData(data))

\* log_scanner_hit called directly
LogScannerHit(p, data) ==
    /\ Free(p)
    /\ used.appends < MaxAppends
    /\ LoadAndBuild(p, "log_scanner_hit", data.ticker, DirectTriggerData(data))

\* lines 584-586: open(log_file, 'w') truncates, json.dump writes the document
WrittenFile(logs, dumped) == IF dumped THEN logs ELSE Corrupt

WriteLog(p, dumped) ==
    /\ pc[p] = "write"
    /\ dumped \/ used.faults < MaxFaults
    /\ active' = PutFile(active, loc[p].date, WrittenFile(loc[p].logs, dumped))
    /\ IF dumped
       THEN /\ pc' = [pc EXCEPT ![p] = "db"]
            /\ UNCHANGED <<loc, ret, used>>
       ELSE /\ pc' = [pc EXCEPT ![p] = "idle"]
            /\ loc' = [loc EXCEPT ![p] = Idle]
            /\ ret' = AppendResult(loc[p].op, FALSE)
            /\ used' = [used EXCEPT !.faults = @ + 1]
    /\ UNCHANGED <<archive, backups, Tables, Clock, cloud>>

\* the row save_hit_to_database inserts
HitRow(hit_entry) == hit_entry

\* an insert that replaces the row of the same date and hit_id, if there is one
InsertedOrReplaced(rows, row) ==
    IF \E i \in 1..Len(rows) : rows[i].date = row.date /\ rows[i].hit_id = row.hit_id
    THEN LET i == CHOOSE i \in 1..Len(rows) :
                      rows[i].date = row.date /\ rows[i].hit_id = row.hit_id
         IN  [rows EXCEPT ![i] = row]
    ELSE Append(rows, row)

\* lines 788-819: INSERT INTO scanner_hits; the surrogate key id is the
\* position of the row
Inserted(rows, row) == Append(rows, row)

\* lines 588-591: save_hit_to_database swallows its errors; then return True
SaveHit(p, inserted) ==
    /\ pc[p] = "db"
    /\ inserted \/ used.faults < MaxFaults
    /\ scanner_hits' = IF inserted THEN Inserted(scanner_hits, HitRow(loc[p].hit_entry))
                       ELSE scanner_hits
    /\ used' = IF inserted THEN used ELSE [used EXCEPT !.faults = @ + 1]
    /\ pc' = [pc EXCEPT ![p] = "idle"]
    /\ loc' = [loc EXCEPT ![p] = Idle]
    /\ ret' = AppendResult(loc[p].op, TRUE)
    /\ UNCHANGED <<Files, daily_summaries, Clock, cloud>>

----------------------------------------------------------------------------
(* archive_daily_logs *)

\* file_date < cutoff_date, with cutoff_date = now - 30 days and file_date the
\* file's midnight: true from the day file_date + 30 on
Expired(file_date, now_day) == file_date + RetentionDays <= now_day

\* a move that empties the archive slot when there is nothing to move
MovedOrCleared(dir, date) ==
    IF Exists(active, date) THEN PutFile(dir, date, active[date])
    ELSE RemoveFiles(dir, {date})

\* lines 741-751: os.rename moves yesterday's document into the archive,
\* replacing a file of that name already there
Moved(dir, date) ==
    IF Exists(active, date) THEN PutFile(dir, date, active[date]) ELSE dir

\* a copy: the source file stays where it was
CopiedNotMoved(dir, date) == dir

\* line 751: the active directory after os.rename has taken the file away
MovedAway(dir, date) == RemoveFiles(dir, {date})

\* lines 753-765: the archive directory after the clean-up loop
Pruned(dir, now_day) == RemoveFiles(dir, {d \in DOMAIN dir : Expired(d, now_day)})

\* lines 738-765: move yesterday's document, then delete the old archives
ArchiveAndPrune(p) ==
    LET yesterday == today - 1
    IN  /\ Free(p)
        /\ used.rollovers < MaxRollovers
        /\ used' = [used EXCEPT !.rollovers = @ + 1]
        /\ archive' = Pruned(Moved(archive, yesterday), today)
        /\ active' = MovedAway(active, yesterday)
        /\ pc' = [pc EXCEPT ![p] = "backup"]
        /\ loc' = [loc EXCEPT ![p] = [op |-> "archive_daily_logs", yesterday |-> yesterday]]
        /\ UNCHANGED ret
        /\ UNCHANGED <<backups, Tables, Clock, cloud>>

\* the row save_daily_summary_to_db writes
SummaryRow(date, summary) ==
    [ date |-> date,
      total_hits |-> summary.total_hits,
      unique_tickers |-> Len(summary.unique_tickers),
      trigger_types |-> summary.trigger_types,
      price_ranges |-> summary.price_ranges,
      performance_metrics |-> summary.performance_metrics ]

\* a plain INSERT into a table without the UNIQUE constraint
UpsertedInsertOnly(table, row) == Append(table, row)

\* lines 857-869 with line 59: INSERT OR REPLACE on the UNIQUE column date
\* deletes the row of that date, if any, and inserts the new one
Upserted(table, row) == Append(SelectSeq(table, LAMBDA r : r.date # row.date), row)

\* backup_filename: scanner_hits_{date}_backup_{int(time.time())}.json
BackupName(date, now_sec) == <<date, today, now_sec>>

\* lines 767-774: create_permanent_backup(yesterday), which swallows its
\* errors and reads time.time(), a second later than the last reading or
\* not; then the cloud upload, whose function the module does not define,
\* so that the call raises NameError and archive_daily_logs returns False
BackupAndReturn(p, copied, saved, elapsed) ==
    LET date == loc[p].yesterday
        now_sec == sec + elapsed
        found == Exists(archive, date)
        parsed == found /\ copied /\ IsDoc(archive[date])
    IN  /\ pc[p] = "backup"
        /\ sec' = IF found THEN now_sec ELSE sec
        /\ found \/ elapsed = 0
        /\ (copied /\ saved) \/ (found /\ used.faults < MaxFaults)
        /\ copied \/ saved
        /\ saved \/ parsed
        /\ backups' = IF found /\ copied
                      THEN PutFile(backups, BackupName(date, now_sec), archive[date])
                      ELSE backups
        /\ daily_summaries' =
              IF parsed /\ saved
              THEN Upserted(daily_summaries, SummaryRow(date, archive[date].daily_summary))
              ELSE daily_summaries
        /\ used' = IF copied /\ saved THEN used ELSE [used EXCEPT !.faults = @ + 1]
        /\ pc' = [pc EXCEPT ![p] = "idle"]
        /\ loc' = [loc EXCEPT ![p] = Idle]
        /\ ret' = Returned("archive_daily_logs", ~cloud, IF cloud THEN 500 ELSE 200)
        /\ UNCHANGED <<active, archive, scanner_hits, today, cloud>>

----------------------------------------------------------------------------
(* The clock *)

\* midnight passes, also while a request is being served; with no request in
\* progress the server may sit idle for the whole retention period
NextDay(days) ==
    /\ used.days < MaxDayTicks
    /\ days = 1 \/ \A p \in Procs : pc[p] = "idle"
    /\ today' = today + days
    /\ sec' = 0
    /\ used' = [used EXCEPT !.days = @ + 1]
    /\ UNCHANGED <<Files, Tables, cloud, pc, loc, ret>>

----------------------------------------------------------------------------

Next ==
    \/ \E p \in Procs, data \in Requests : LogHit(p, data)
    \/ \E p \in Procs, data \in DirectCalls : LogScannerHit(p, data)
    \/ \E p \in Procs, dumped \in BOOLEAN : WriteLog(p, dumped)
    \/ \E p \in Procs, inserted \in BOOLEAN : SaveHit(p, inserted)
    \/ \E p \in Procs : ArchiveAndPrune(p)
    \/ \E p \in Procs, copied \in BOOLEAN, saved \in BOOLEAN, elapsed \in {0, 1} :
          BackupAndReturn(p, copied, saved, elapsed)
    \/ \E days \in {1, RetentionDays} : NextDay(days)

Spec == Init /\ [][Next]_vars

----------------------------------------------------------------------------
(* The executions in which appends do not overlap: a second call of       *)
(* log_scanner_hit starts only after the first has returned.  Rollovers   *)
(* and the clock run as before.                                           *)

\* at most one append is between its read and its return
SerialAppends == Cardinality({p \in Procs : pc[p] \in {"write", "db"}}) <= 1

SerialNext ==
    \/ \E p \in Procs, data \in Requests : LogHit(p, data) /\ SerialAppends'
    \/ \E p \in Procs, data \in DirectCalls :
          LogScannerHit(p, data) /\ SerialAppends'
    \/ \E p \in Procs, dumped \in BOOLEAN : WriteLog(p, dumped)
    \/ \E p \in Procs, inserted \in BOOLEAN : SaveHit(p, inserted)
    \/ \E p \in Procs : ArchiveAndPrune(p)
    \/ \E p \in Procs, copied \in BOOLEAN, saved \in BOOLEAN, elapsed \in {0, 1} :
          BackupAndReturn(p, copied, saved, elapsed)
    \/ \E days \in {1, RetentionDays} : NextDay(days)

SerialSpec == Init /\ [][SerialNext]_vars

----------------------------------------------------------------------------
(* Single calls of the functions that change nothing: the classifier and  *)
(* query_historical_data.  CallSpec starts with one call, its arguments   *)
(* in loc[1], and for a query with a table to run it on; the call's step  *)
(* leaves the value it returns in ret.                                    *)

PriceInputs ==
    {None} \cup {Some(n) : n \in {0, 10, 4990, 4999, 5000, 5001, 9999, 10000,
                                  14999, 15000, 15001, 20000}}

VolumeInputs ==
    {None} \cup {Some(n) : n \in {0, 1000, 4999, 5000, 9999, 10000, 19999, 20000,
                                  49999, 50000, 60000}}

QueryDays == {1, 2}
QueryTicks == {1, 2}
QueryTickers == {"abc", "XYZ"}

\* a row as log_scanner_hit inserts it for a hit of that instant and ticker
QueryRow(day, tick, ticker) ==
    HitRow(HitEntry(FreshLogs(day), <<day, tick>>, ticker, DirectTriggerData(ScenarioA)))

QueryRows == {QueryRow(d, t, k) : d \in QueryDays, t \in QueryTicks, k \in QueryTickers}

QueryTables == UNION {[1..n -> QueryRows] : n \in 0..MaxRows}

DefaultLimit == 1000

\* the arguments of /historical-data: request.args.get gives None or a string
QueryCalls ==
    [ op : {"query_historical_data"},
      start_date : {None, Some(1), Some(2)},
      end_date : {None, Some(1)},
      ticker : {None, Some(""), Some("abc")},
      limit : {0, 1, 2, DefaultLimit} ]

\* the document of a day after hits for these tickers, one after the other
RECURSIVE DocOf(_, _)
DocOf(day, tickers) ==
    IF tickers = <<>> THEN FreshLogs(day)
    ELSE LET n == Len(tickers)
             logs == DocOf(day, SubSeq(tickers, 1, n - 1))
         IN  AppendHit(logs, HitEntry(logs, <<day, n>>, tickers[n],
                                      DirectTriggerData(ScenarioA)))

\* what the file of a day may hold
SummaryFiles(day) == {Corrupt, DocOf(day, <<"abc">>), DocOf(day, <<"XYZ", "abc">>)}

\* a directory with files for some of the days
SummaryDirs ==
    UNION {{f \in [D -> UNION {SummaryFiles(d) : d \in D}] :
               \A d \in D : f[d] \in SummaryFiles(d)} : D \in SUBSET QueryDays}

\* log_scanner_hit up to its write: the document read, and the event
BuildCalls ==
    [ op : {"log_scanner_hit"},
      logs : {FreshLogs(1), DocOf(1, <<"abc">>)},
      ticker : {"abc", "XYZ"},
      trigger_data :
          {[DirectTriggerData(ScenarioA) EXCEPT !.change_pct = c, !.rel_volume = v] :
              c \in {Missing, Some(0), Some(0 - 10125), Some(22000)},
              v \in {Missing, Some(0), Some(2500), Some(60000)}} ]

\* /daily-summary: request.args.get("date") is None or a date
SummaryCalls == [op : {"get_daily_summary"}, date : {None} \cup {Some(d) : d \in QueryDays}]

\* trigger_data dicts: a key is missing, or holds None, or holds a value
SignalInputs ==
    [ change_pct : {Missing, None} \cup {Some(n) : n \in {0, 9999, 10000, 0 - 10000,
                                               14999, 15000, 0 - 15000, 22000}},
      rel_volume : {Missing, None} \cup {Some(n) : n \in {0, 1000, 19999, 20000,
                                               49999, 50000}},
      breakout_detected : {Missing, Some(0), Some(1)},
      news_detected : {Missing, Some(0), Some(1)} ]

ClassifierCalls ==
    [op : {"categorize_price"}, price : PriceInputs]
        \cup [op : {"categorize_volume_spike"}, rel_volume : VolumeInputs]
        \cup [op : {"calculate_signal_strength"}, trigger_data : SignalInputs]

CallInit ==
    /\ sec = 0
    /\ backups = <<>>
    /\ daily_summaries = <<>>
    /\ cloud = FALSE
    /\ pc = [p \in Procs |-> IF p = 1 THEN "call" ELSE "idle"]
    /\ \/ /\ loc \in [Procs -> ClassifierCalls \cup {Idle}]
          /\ scanner_hits = <<>>
          /\ today = 1 /\ active = <<>> /\ archive = <<>>
       \/ /\ loc \in [Procs -> BuildCalls \cup {Idle}]
          /\ scanner_hits = <<>>
          /\ today = 1 /\ active = <<>> /\ archive = <<>>
       \/ /\ loc \in [Procs -> QueryCalls \cup {Idle}]
          /\ scanner_hits \in QueryTables
          /\ today = 1 /\ active = <<>> /\ archive = <<>>
       \/ /\ loc \in [Procs -> SummaryCalls \cup {Idle}]
          /\ scanner_hits = <<>>
          /\ today \in QueryDays /\ active \in SummaryDirs /\ archive \in SummaryDirs
    /\ \A p \in Procs : loc[p] = Idle <=> p # 1
    /\ ret = Pending
    /\ used = [appends |-> 0, rollovers |-> 0, days |-> 0, faults |-> 0]

\* what a call hands back
Value(op, v) == [op |-> op, ok |-> TRUE, code |-> 0, value |-> v]

CategorizePrice(p) ==
    /\ pc[p] = "call" /\ loc[p].op = "categorize_price"
    /\ ret' = Value("categorize_price", categorize_price(loc[p].price))
    /\ pc' = [pc EXCEPT ![p] = "done"]
    /\ UNCHANGED <<Files, Tables, Clock, cloud, loc, used>>

CategorizeVolumeSpike(p) ==
    /\ pc[p] = "call" /\ loc[p].op = "categorize_volume_spike"
    /\ ret' = Value("categorize_volume_spike", categorize_volume_spike(loc[p].rel_volume))
    /\ pc' = [pc EXCEPT ![p] = "done"]
    /\ UNCHANGED <<Files, Tables, Clock, cloud, loc, used>>

\* a call that ends in an exception
Raised(op, error) == [op |-> op, ok |-> FALSE, code |-> 0, error |-> error]

CalculateSignalStrength(p) ==
    /\ pc[p] = "call" /\ loc[p].op = "calculate_signal_strength"
    /\ ret' = IF SignalRaises(loc[p].trigger_data)
              THEN Raised("calculate_signal_strength", "TypeError")
              ELSE Value("calculate_signal_strength",
                         calculate_signal_strength(loc[p].trigger_data))
    /\ pc' = [pc EXCEPT ![p] = "done"]
    /\ UNCHANGED <<Files, Tables, Clock, cloud, loc, used>>

\* lines 544-582: the entry built and the document in memory updated
BuildAndUpdate(p) ==
    LET logs == loc[p].logs
        hit_entry == HitEntry(logs, Now, loc[p].ticker, loc[p].trigger_data)
    IN  /\ pc[p] = "call" /\ loc[p].op = "log_scanner_hit"
        /\ ret' = Value("log_scanner_hit", AppendHit(logs, hit_entry))
        /\ pc' = [pc EXCEPT ![p] = "done"]
        /\ UNCHANGED <<Files, Tables, Clock, cloud, loc, used>>

\* `if start_date:` and `if ticker:`: None and the empty string are no filter
GivenDate(x) == x # None
GivenText(x) == x # None /\ Val(x) # ""

\* the WHERE clause built in lines 883-896
Matches(row, q) ==
    /\ GivenDate(q.start_date) => row.date >= Val(q.start_date)
    /\ GivenDate(q.end_date) => row.date <= Val(q.end_date)
    /\ GivenText(q.ticker) => row.ticker = Upper(Val(q.ticker))

\* timestamp a >= timestamp b, as ISO texts compare
NotOlder(a, b) == a[1] > b[1] \/ (a[1] = b[1] /\ a[2] >= b[2])

\* ORDER BY timestamp DESC: the orders the ids of the rows may come in; rows
\* of the same timestamp come in any order
NewestFirst(table, ids) ==
    {s \in [1..Cardinality(ids) -> ids] :
        /\ \A i, j \in 1..Cardinality(ids) : s[i] = s[j] => i = j
        /\ \A i \in 1..(Cardinality(ids) - 1) :
              NotOlder(table[s[i]].timestamp, table[s[i + 1]].timestamp)}

\* a LIMIT that lets one row too many through
TakeOneMore(s, n) == IF n + 1 < Len(s) THEN SubSeq(s, 1, n + 1) ELSE s

\* LIMIT ?: the first n of the rows; a negative n is no limit
Take(s, n) == IF 0 <= n /\ n < Len(s) THEN SubSeq(s, 1, n) ELSE s

\* lines 905-906: a dict per row, column name -> value; id is the surrogate key
RowDict(table, id) == ("id" :> id) @@ table[id]

\* lines 877-913: the rows the SELECT returns, or [] when sqlite3 raises
QueryHistoricalData(p, executed) ==
    LET q == loc[p]
        ids == {i \in 1..Len(scanner_hits) : Matches(scanner_hits[i], q)}
    IN  /\ pc[p] = "call" /\ q.op = "query_historical_data"
        /\ \E s \in NewestFirst(scanner_hits, ids) :
              LET rows == Take(s, q.limit)
              IN  ret' = Value("query_historical_data",
                               IF executed
                               THEN [k \in 1..Len(rows) |-> RowDict(scanner_hits, rows[k])]
                               ELSE <<>>)
        /\ pc' = [pc EXCEPT ![p] = "done"]
        /\ UNCHANGED <<Files, Tables, Clock, cloud, loc, used>>

\* the archive looked in first
FoundFileArchiveFirst(date) ==
    IF Exists(archive, date) THEN archive[date] ELSE active[date]

\* lines 921-927: the current log file if it exists, else the archived one
FoundFile(date) ==
    IF Exists(active, date) THEN active[date] ELSE archive[date]

\* lines 915-953; every document log_scanner_hit writes has a daily_summary,
\* so the branch for the older format without one is never taken
get_daily_summary(date_arg) ==
    LET date == IF date_arg = None THEN today ELSE Val(date_arg)
    IN  IF ~Exists(active, date) /\ ~Exists(archive, date)
        THEN [date |-> date, total_hits |-> 0, unique_tickers |-> 0, scanner_hits |-> <<>>]
        ELSE LET logs == FoundFile(date)
             IN  IF ~IsDoc(logs)
                 THEN [date |-> date, error |-> "JSONDecodeError"]
                 ELSE [ date |-> date,
                        total_hits |-> logs.daily_summary.total_hits,
                        unique_tickers |-> Len(logs.daily_summary.unique_tickers),
                        trigger_types |-> logs.daily_summary.trigger_types,
                        price_ranges |-> logs.daily_summary.price_ranges,
                        performance_metrics |-> logs.daily_summary.performance_metrics,
                        scanner_hits |-> logs.scanner_hits,
                        log_metadata |-> logs.log_metadata ]

GetDailySummary(p) ==
    /\ pc[p] = "call" /\ loc[p].op = "get_daily_summary"
    /\ ret' = Value("get_daily_summary", get_daily_summary(loc[p].date))
    /\ pc' = [pc EXCEPT ![p] = "done"]
    /\ UNCHANGED <<Files, Tables, Clock, cloud, loc, used>>

CallNext ==
    \/ \E p \in Procs : CategorizePrice(p)
    \/ \E p \in Procs : CategorizeVolumeSpike(p)
    \/ \E p \in Procs : CalculateSignalStrength(p)
    \/ \E p \in Procs : BuildAndUpdate(p)
    \/ \E p \in Procs, executed \in BOOLEAN : QueryHistoricalData(p, executed)
    \/ \E p \in Procs : GetDailySummary(p)

CallSpec == CallInit /\ [][CallNext]_vars

----------------------------------------------------------------------------
(* Properties *)

Range(f) == {f[x] : x \in DOMAIN f}

\* every readable ledger document on disk: active, archived or backed up
StoredDocs == {f \in Range(active) \cup Range(archive) \cup Range(backups) : IsDoc(f)}

RECURSIVE SumOver(_, _)
SumOver(f, keys) ==
    IF keys = {} THEN 0
    ELSE LET k == CHOOSE x \in keys : TRUE IN f[k] + SumOver(f, keys \ {k})

IsAppend(r) == r.op \in {"log_hit", "log_scanner_hit"}

\* C1: in every persisted ledger document, daily_summary.total_hits equals the
\* number of entries of its scanner_hits list
C1_TotalHitsIsLength ==
    \A doc \in StoredDocs : doc.daily_summary.total_hits = Len(doc.scanner_hits)

C1_Witness ==
    \E d \in DOMAIN active :
        /\ IsDoc(active[d])
        /\ Len(active[d].scanner_hits) = 2
        /\ active[d].daily_summary.total_hits = 2
        /\ \E i \in 1..2 : active[d].scanner_hits[i].primary_trigger = "unknown"

\* C2: in every persisted ledger document, daily_summary.total_hits equals the
\* sum of the counts of the trigger_types histogram, whatever the trigger kinds
\* of the appended events were (the unknown kind included)
C2_TotalHitsIsHistogramSum ==
    \A doc \in StoredDocs :
        doc.daily_summary.total_hits =
            SumOver(doc.daily_summary.trigger_types, TriggerKinds)

\* two append calls on one day with no rollover and no fault, and both returned
\* True: each inserted its row, which a call that fails never does
BothAppended ==
    /\ used.appends = 2 /\ used.rollovers = 0 /\ used.days = 0 /\ used.faults = 0
    /\ \A p \in Procs : pc[p] = "idle"
    /\ IsAppend(ret) /\ ret.ok
    /\ Len(scanner_hits) = 2

\* C3: two overlapping appends for the same day that both report success leave
\* a document with one or two entries: the second writer may replace the
\* first one's document, whose entry then is only in the scanner_hits table
C3_OverlappingAppends ==
    BothAppended =>
        /\ Exists(active, today) /\ IsDoc(active[today])
        /\ Len(active[today].scanner_hits) \in {1, 2}
        /\ \A i \in 1..Len(active[today].scanner_hits) :
              Contains(scanner_hits, HitRow(active[today].scanner_hits[i]))

\* the lost update: both calls succeeded and the document holds one entry
C3_Witness ==
    /\ BothAppended
    /\ Len(active[today].scanner_hits) = 1
    /\ active[today].daily_summary.total_hits = 1

\* C4: in every persisted ledger document the i-th entry has hit_id = i
C4_HitIdsSequential ==
    \A doc \in StoredDocs :
        \A i \in 1..Len(doc.scanner_hits) : doc.scanner_hits[i].hit_id = i

C4_Witness ==
    \E d \in DOMAIN archive :
        /\ IsDoc(archive[d])
        /\ Len(archive[d].scanner_hits) = 2
        /\ archive[d].scanner_hits[2].hit_id = 2

HasBackup(date) == \E b \in DOMAIN backups : b[1] = date

\* C5: a rollover deletes an archived document only if a permanent backup of
\* that date already exists
C5_PruneOnlyAfterBackup ==
    [][\A d \in DOMAIN archive : d \notin DOMAIN archive' => HasBackup(d)]_vars

\* thread p returns from a rollover in this step
RolloverReturns(p) == pc[p] = "backup" /\ pc'[p] = "idle"

\* the date has been rolled over already: no active document, the archived
\* one backed up as it is, and its summary stored
RolledOver(date) ==
    /\ ~Exists(active, date)
    /\ Exists(archive, date) /\ IsDoc(archive[date])
    /\ \E b \in DOMAIN backups : b[1] = date /\ backups[b] = archive[date]
    /\ \E i \in 1..Len(daily_summaries) :
          daily_summaries[i] = SummaryRow(date, archive[date].daily_summary)

\* C6 as claimed: a rollover repeated for a date leaves the archive, the backup
\* set and daily_summaries as the first one left them
C6_SecondRolloverChangesNothing ==
    [][\A p \in Procs :
          (RolloverReturns(p) /\ RolledOver(loc[p].yesterday))
              => UNCHANGED <<archive, backups, daily_summaries>>]_vars

\* C6: a rollover repeated for a date leaves the one archived document and the
\* one daily_summaries row of that date as they are and keeps every backup
\* file; it may add one more backup file, a copy of the archived document
C6_SecondRolloverAddsBackupOnly ==
    [][\A p \in Procs :
          /\ (Free(p) /\ pc'[p] = "backup" /\ RolledOver(today - 1))
                => /\ Exists(archive', today - 1)
                   /\ archive'[today - 1] = archive[today - 1]
                   /\ UNCHANGED <<active, backups, daily_summaries>>
          /\ (RolloverReturns(p) /\ RolledOver(loc[p].yesterday))
                => /\ UNCHANGED <<active, archive, daily_summaries>>
                   /\ \A b \in DOMAIN backups :
                         b \in DOMAIN backups' /\ backups'[b] = backups[b]
                   /\ \A b \in DOMAIN backups' \ DOMAIN backups :
                         /\ b[1] = loc[p].yesterday
                         /\ backups'[b] = archive[loc[p].yesterday]]_vars

\* two backup files of one date, both copies of its archived document
C6_Witness ==
    \E d \in DOMAIN archive :
        /\ RolledOver(d)
        /\ used.rollovers = 2
        /\ \A p \in Procs : pc[p] = "idle"
        /\ Cardinality({b \in DOMAIN backups : b[1] = d /\ backups[b] = archive[d]}) = 2

\* C7: with a cloud-backup target configured, a rollover reports success
C7_RolloverSucceedsWithCloudTarget ==
    (cloud /\ ret.op = "archive_daily_logs") => ret.ok

\* thread p returns from an append in this step, reporting failure
AppendFails(p) ==
    /\ IsAppend(ret') /\ ~ret'.ok
    /\ \/ pc[p] = "write" /\ pc'[p] = "idle"
       \/ Free(p) /\ used'.appends # used.appends

\* C8: a step in which an append reports failure leaves the ledger documents
\* and the scanner_hits table as they were
C8_FailedAppendWritesNothing ==
    [][\A p \in Procs : AppendFails(p) => UNCHANGED <<active, scanner_hits>>]_vars

C10_ArchivedDocumentImmutable ==
    [][\A d \in DOMAIN archive :
          (IsDoc(archive[d]) /\ d \in DOMAIN archive' /\ IsDoc(archive'[d]))
              => archive'[d] = archive[d]]_vars

\* C11: a date whose document is in the archive and not in the active
\* directory never gets an active document again, and no date has a document
\* in the active directory and in the archive at once
C11_LifecycleForward ==
    [][\A d \in DOMAIN archive \cup DOMAIN active' :
          /\ (Exists(archive, d) /\ ~Exists(active, d)) => ~Exists(active', d)
          /\ ~(Exists(active', d) /\ Exists(archive', d))]_vars

\* thread p starts a rollover in this step: the move and the clean-up
RolloverMoves(p) == Free(p) /\ pc'[p] = "backup"

\* C12: the step of a rollover that finds an active document for yesterday
\* leaves that document, as it was, in the archive and no document for
\* yesterday in the active directory
C12_MoveNotCopy ==
    [][\A p \in Procs :
          (RolloverMoves(p) /\ Exists(active, today - 1))
              => /\ Exists(archive', today - 1)
                 /\ archive'[today - 1] = active[today - 1]
                 /\ ~Exists(active', today - 1)]_vars

\* a rollover has moved yesterday's document, one with an entry, and has not
\* returned yet
C12_Witness ==
    \E p \in Procs :
        /\ pc[p] = "backup"
        /\ Exists(archive, loc[p].yesterday) /\ IsDoc(archive[loc[p].yesterday])
        /\ Len(archive[loc[p].yesterday].scanner_hits) >= 1
        /\ ~Exists(active, loc[p].yesterday)

IsPrefix(s, t) == Len(s) <= Len(t) /\ \A i \in 1..Len(s) : s[i] = t[i]

\* C13: every step keeps the rows of scanner_hits as they are, in place, and
\* adds at most one; the step of save_hit_to_database whose INSERT is
\* executed adds exactly one row, the hit entry, at the end
C13_ScannerHitsAppendOnly ==
    [][/\ IsPrefix(scanner_hits, scanner_hits')
       /\ Len(scanner_hits') <= Len(scanner_hits) + 1
       /\ \A p \in Procs :
             (pc[p] = "db" /\ pc'[p] = "idle" /\ used'.faults = used.faults)
                 => /\ Len(scanner_hits') = Len(scanner_hits) + 1
                    /\ scanner_hits'[Len(scanner_hits')] = HitRow(loc[p].hit_entry)]_vars

\* two rows of the same date and hit_id, from a lost update, both kept, and a
\* rollover has run since
C13_Witness ==
    /\ Len(scanner_hits) = 2
    /\ scanner_hits[1].date = scanner_hits[2].date
    /\ scanner_hits[1].hit_id = scanner_hits[2].hit_id
    /\ scanner_hits[1] # scanner_hits[2]
    /\ used.rollovers >= 1

\* the rows of daily_summaries, without id and created_at
SummaryRows(table) == Range(table)

\* C14: daily_summaries never holds two rows of one date; the upsert of a
\* rollover leaves the rows of the other dates, and for its date exactly the
\* new row; when that row is in the table already, the rows are the same
\* after the upsert as before
C14_OneSummaryPerDate ==
    [][/\ \A i, j \in 1..Len(daily_summaries') :
             daily_summaries'[i].date = daily_summaries'[j].date => i = j
       /\ \A p \in Procs :
             (/\ RolloverReturns(p) /\ used'.faults = used.faults
              /\ Exists(archive, loc[p].yesterday)
              /\ IsDoc(archive[loc[p].yesterday]))
                 => LET date == loc[p].yesterday
                        row == SummaryRow(date, archive[date].daily_summary)
                    IN  /\ SummaryRows(daily_summaries') =
                              {r \in SummaryRows(daily_summaries) : r.date # date}
                                  \cup {row}
                        /\ row \in SummaryRows(daily_summaries)
                              => SummaryRows(daily_summaries')
                                    = SummaryRows(daily_summaries)]_vars

\* a date rolled over twice with different documents: two different backups,
\* one row, that of the document archived last
C14_Witness ==
    \E d \in DOMAIN archive :
        /\ used.rollovers = 2 /\ \A p \in Procs : pc[p] = "idle"
        /\ IsDoc(archive[d])
        /\ daily_summaries = <<SummaryRow(d, archive[d].daily_summary)>>
        /\ \E b \in DOMAIN backups :
              /\ b[1] = d /\ IsDoc(backups[b]) /\ backups[b] # archive[d]

\* C15: every step keeps each backup file under its name with its content, and
\* a rollover whose create_permanent_backup copies the archived document
\* adds a file under a name that was not in the backup directory
C15_BackupNamesFresh ==
    [][/\ \A b \in DOMAIN backups : b \in DOMAIN backups' /\ backups'[b] = backups[b]
       /\ \A p \in Procs :
             (/\ RolloverReturns(p) /\ used'.faults = used.faults
              /\ Exists(archive, loc[p].yesterday))
                 => Cardinality(DOMAIN backups') = Cardinality(DOMAIN backups) + 1]_vars

\* C16: a rollover for a date that has no document, active or archived,
\* changes no file and no table, and reports success
C16_RolloverOfAbsentDate ==
    [][\A p \in Procs :
          /\ (RolloverMoves(p) /\ ~Exists(active, today - 1)
                               /\ ~Exists(archive, today - 1))
                => UNCHANGED <<Files, Tables>>
          /\ (RolloverReturns(p) /\ ~Exists(archive, loc[p].yesterday))
                => /\ UNCHANGED <<Files, Tables>>
                   /\ ret' = Returned("archive_daily_logs", TRUE, 200)]_vars

\* thread p has made the call `op` and the value is in ret
Called(p, op) == pc[p] = "done" /\ loc[p].op = op

\* C17: query_historical_data with limit N >= 0 returns at most N rows, each
\* a row of the table that passes the start_date, end_date and ticker filters
\* given, no row twice, in descending order of timestamp
C17_QueryBoundedFilteredOrdered ==
    \A p \in Procs :
        Called(p, "query_historical_data") =>
            LET q == loc[p]
                rows == ret.value
            IN  /\ Len(rows) <= q.limit
                /\ \A k \in 1..Len(rows) :
                      /\ rows[k].id \in 1..Len(scanner_hits)
                      /\ rows[k] = RowDict(scanner_hits, rows[k].id)
                      /\ GivenDate(q.start_date) => rows[k].date >= Val(q.start_date)
                      /\ GivenDate(q.end_date) => rows[k].date <= Val(q.end_date)
                      /\ GivenText(q.ticker) => rows[k].ticker = Upper(Val(q.ticker))
                /\ \A k, l \in 1..Len(rows) :
                      /\ rows[k].id = rows[l].id => k = l
                      /\ k < l => NotOlder(rows[k].timestamp, rows[l].timestamp)

\* three rows pass the filters, inserted oldest first; limit 2 returns the
\* two newest, the newer one first
C17_Witness ==
    \E p \in Procs :
        /\ Called(p, "query_historical_data")
        /\ loc[p].limit = 2 /\ loc[p].ticker = Some("abc") /\ loc[p].start_date = Some(1)
        /\ Len(scanner_hits) = 3
        /\ \A i \in 1..3 : Matches(scanner_hits[i], loc[p])
        /\ Len(ret.value) = 2
        /\ ret.value[1].id = 3 /\ ret.value[2].id = 2
        /\ ret.value[1].timestamp # ret.value[2].timestamp

\* every recorded hit entry: in the ledger documents and in the table
RecordedEntries ==
    UNION {Range(doc.scanner_hits) : doc \in StoredDocs} \cup Range(scanner_hits)

\* the entry is the record of the Scenario A event: ABC, 4.50, 22, 60,
\* volume_spike, no flags
OfScenarioA(e) ==
    /\ e.ticker = "ABC" /\ e.primary_trigger = "volume_spike"
    /\ e.price = Some(450) /\ e.price_change_pct = Some(2200)
    /\ e.relative_volume = Some(6000)
    /\ ~Truthy(e.breakout_detected) /\ ~Truthy(e.news_detected)

ScenarioALabels(e) ==
    /\ e.price_category = "penny_stock"
    /\ e.volume_category = "extreme_spike"
    /\ e.risk_level = "very_high"

\* C18 as claimed: the record of the Scenario A event has the three labels
\* and signal_strength 10
C18_ScenarioAStrengthTen ==
    \A e \in RecordedEntries :
        OfScenarioA(e) => ScenarioALabels(e) /\ e.signal_strength = 10

\* C18: the record of the Scenario A event has price_category penny_stock,
\* volume_category extreme_spike, risk_level very_high and signal_strength
\* 9 = 5 + 2 + 2
C18_ScenarioAStrengthNine ==
    \A e \in RecordedEntries :
        OfScenarioA(e) => ScenarioALabels(e) /\ e.signal_strength = 9

\* the Scenario A event is on file and in the table
C18_Witness ==
    /\ \E doc \in StoredDocs : \E e \in Range(doc.scanner_hits) : OfScenarioA(e)
    /\ \E e \in Range(scanner_hits) : OfScenarioA(e)

\* C19: categorize_price returns unknown exactly when the price is absent,
\* and for a present price p, 0 included, penny_stock for p < 5, low_priced
\* for 5 <= p < 10, mid_priced for 10 <= p < 15, higher_priced for p >= 15
C19_PriceCategory ==
    \A p \in Procs :
        Called(p, "categorize_price") =>
            LET price == loc[p].price
            IN  /\ ret.value = "unknown" <=> price = None
                /\ price # None =>
                      ret.value = IF Val(price) < 5000 THEN "penny_stock"
                                  ELSE IF Val(price) < 10000 THEN "low_priced"
                                  ELSE IF Val(price) < 15000 THEN "mid_priced"
                                  ELSE "higher_priced"

\* C20: categorize_volume_spike returns normal exactly when the relative
\* volume is absent, and for a present value v, 0 included, normal_volume for
\* v < 5, moderate_spike for 5 <= v < 10, high_spike for 10 <= v < 20,
\* massive_spike for 20 <= v < 50, extreme_spike for v >= 50
C20_VolumeCategory ==
    \A p \in Procs :
        Called(p, "categorize_volume_spike") =>
            LET v == loc[p].rel_volume
            IN  /\ ret.value = "normal" <=> v = None
                /\ v # None =>
                      ret.value = IF Val(v) < 5000 THEN "normal_volume"
                                  ELSE IF Val(v) < 10000 THEN "moderate_spike"
                                  ELSE IF Val(v) < 20000 THEN "high_spike"
                                  ELSE IF Val(v) < 50000 THEN "massive_spike"
                                  ELSE "extreme_spike"

\* C21: in every persisted ledger document, unique_tickers lists no ticker
\* twice and lists exactly the tickers of the entries of scanner_hits
C21_UniqueTickers ==
    \A doc \in StoredDocs :
        LET tickers == doc.daily_summary.unique_tickers
        IN  /\ \A i, j \in 1..Len(tickers) : tickers[i] = tickers[j] => i = j
            /\ Range(tickers) = {e.ticker : e \in Range(doc.scanner_hits)}

\* two hits for one ticker in a document: one unique ticker, total_hits 2
C21_Witness ==
    \E doc \in StoredDocs :
        /\ Len(doc.scanner_hits) = 2
        /\ doc.scanner_hits[1].ticker = "ABC" /\ doc.scanner_hits[2].ticker = "ABC"
        /\ doc.daily_summary.unique_tickers = <<"ABC">>
        /\ doc.daily_summary.total_hits = 2

\* the result shows the document: its counts, its entries and its metadata
ShowsDoc(v, doc) ==
    /\ "error" \notin DOMAIN v
    /\ v.total_hits = doc.daily_summary.total_hits
    /\ v.unique_tickers = Len(doc.daily_summary.unique_tickers)
    /\ v.scanner_hits = doc.scanner_hits
    /\ v.log_metadata = doc.log_metadata

\* C22: get_daily_summary for a date with no file, active or archived,
\* returns total_hits 0, unique_tickers 0 and no hits, and no error; with a
\* readable active file it returns that document, whatever the archive
\* holds; with no active file and a readable archived one, the archived
\* document.  The date is today when none is given.
C22_SummaryLookup ==
    \A p \in Procs :
        Called(p, "get_daily_summary") =>
            LET date == IF loc[p].date = None THEN today ELSE Val(loc[p].date)
                v == ret.value
            IN  /\ v.date = date
                /\ (~Exists(active, date) /\ ~Exists(archive, date))
                      => /\ "error" \notin DOMAIN v
                         /\ v.total_hits = 0 /\ v.unique_tickers = 0
                         /\ v.scanner_hits = <<>>
                /\ (Exists(active, date) /\ IsDoc(active[date]))
                      => ShowsDoc(v, active[date])
                /\ (~Exists(active, date) /\ Exists(archive, date)
                                          /\ IsDoc(archive[date]))
                      => ShowsDoc(v, archive[date])

\* the date has an active document and a different archived one, and the
\* result shows the active one
C22_Witness ==
    \E p \in Procs :
        /\ Called(p, "get_daily_summary") /\ loc[p].date # None
        /\ Exists(active, Val(loc[p].date)) /\ IsDoc(active[Val(loc[p].date)])
        /\ Exists(archive, Val(loc[p].date)) /\ IsDoc(archive[Val(loc[p].date)])
        /\ Len(active[Val(loc[p].date)].scanner_hits) = 1
        /\ Len(archive[Val(loc[p].date)].scanner_hits) = 2
        /\ Len(ret.value.scanner_hits) = 1

\* the entry is the last one of a readable document of that date in `dir`
LastOf(dir, date, e) ==
    /\ Exists(dir, date) /\ IsDoc(dir[date])
    /\ Len(dir[date].scanner_hits) >= 1
    /\ dir[date].scanner_hits[Len(dir[date].scanner_hits)] = e

\* C23: when an append returns True, its entry is the last one of the day's
\* document on disk, and the step has added one row to scanner_hits, with the
\* entry's date, hit_id and ticker
C23_SuccessInBothSinks ==
    [][\A p \in Procs :
          (pc[p] = "db" /\ pc'[p] = "idle" /\ ret'.ok)
              => LET e == loc[p].hit_entry
                 IN  /\ LastOf(active', e.date, e) \/ LastOf(archive', e.date, e)
                     /\ Len(scanner_hits') = Len(scanner_hits) + 1
                     /\ scanner_hits'[Len(scanner_hits')].date = e.date
                     /\ scanner_hits'[Len(scanner_hits')].hit_id = e.hit_id
                     /\ scanner_hits'[Len(scanner_hits')].ticker = e.ticker]_vars

\* C24: when a rollover returns True and yesterday's document is in the
\* archive, daily_summaries has a row for yesterday with the document's
\* total_hits and the number of its unique tickers, and the backup directory
\* has a copy of the document
C24_SuccessfulRolloverPersists ==
    [][\A p \in Procs :
          (/\ RolloverReturns(p) /\ ret'.ok
           /\ Exists(archive, loc[p].yesterday) /\ IsDoc(archive[loc[p].yesterday]))
              => LET date == loc[p].yesterday
                     doc == archive[date]
                 IN  /\ \E i \in 1..Len(daily_summaries') :
                           /\ daily_summaries'[i].date = date
                           /\ daily_summaries'[i].total_hits = doc.daily_summary.total_hits
                           /\ daily_summaries'[i].unique_tickers
                                 = Len(doc.daily_summary.unique_tickers)
                     /\ \E b \in DOMAIN backups' :
                           b[1] = date /\ backups'[b] = doc]_vars

\* the field holds a number, or is left to its default
NumberOrDefault(x) == x # None

\* C25: for an event whose change_pct and relative_volume are numbers (0 and
\* 1 when the keys are missing), calculate_signal_strength returns
\* clamp(5 + (2 if |change_pct| >= 15 else 1 if >= 10 else 0)
\*         + (2 if relative_volume >= 50 else 1 if >= 20 else 0)
\*         + (1 if breakout_detected and news_detected else 0), 1, 10),
\* an integer from 1 to 10
C25_SignalStrengthFormula ==
    \A p \in Procs :
        (/\ Called(p, "calculate_signal_strength")
         /\ NumberOrDefault(loc[p].trigger_data.change_pct)
         /\ NumberOrDefault(loc[p].trigger_data.rel_volume))
            => LET td == loc[p].trigger_data
                   c == IF td.change_pct = Missing THEN 0 ELSE Val(td.change_pct)
                   v == IF td.rel_volume = Missing THEN 1000 ELSE Val(td.rel_volume)
                   both == /\ td.breakout_detected = Some(1)
                           /\ td.news_detected = Some(1)
                   sum == 5 + (IF c >= 15000 \/ c <= 0 - 15000 THEN 2
                               ELSE IF c >= 10000 \/ c <= 0 - 10000 THEN 1 ELSE 0)
                            + (IF v >= 50000 THEN 2 ELSE IF v >= 20000 THEN 1 ELSE 0)
                            + (IF both THEN 1 ELSE 0)
               IN  /\ ret.ok
                   /\ ret.value = (IF sum > 10 THEN 10 ELSE IF sum < 1 THEN 1 ELSE sum)
                   /\ ret.value \in 1..10

\* a fall of 15 percent on 50 times the volume with both flags: 10
C25_Witness ==
    \E p \in Procs :
        /\ Called(p, "calculate_signal_strength")
        /\ loc[p].trigger_data.change_pct = Some(0 - 15000)
        /\ loc[p].trigger_data.rel_volume = Some(50000)
        /\ loc[p].trigger_data.breakout_detected = Some(1)
        /\ loc[p].trigger_data.news_detected = Some(1)
        /\ ret.ok /\ ret.value = 10

\* the field carries a value
Present(x) == x # Missing /\ x # None

\* the average `new` is (old + |x|) / 2, for averages in hundredths as
\* fractions <<numerator, denominator>> and x in thousandths
IsBlend(new, old, x) == new[1] * 20 * old[2] = new[2] * (10 * old[1] + Abs(x) * old[2])

\* C26: an append whose event carries a change_pct c, 0 included, leaves
\* avg_change_pct = (previous avg_change_pct + |c|) / 2, and one whose event
\* carries a relative volume v leaves avg_volume_spike = (previous + |v|) / 2
C26_RunningBlend ==
    \A p \in Procs :
        Called(p, "log_scanner_hit") =>
            LET td == loc[p].trigger_data
                old == loc[p].logs.daily_summary.performance_metrics
                new == ret.value.daily_summary.performance_metrics
            IN  /\ Present(td.change_pct) =>
                      IsBlend(new.avg_change_pct, old.avg_change_pct, Val(td.change_pct))
                /\ Present(td.rel_volume) =>
                      IsBlend(new.avg_volume_spike, old.avg_volume_spike, Val(td.rel_volume))

\* the row's record is an entry of a readable document of its date
RowOnFile(r) ==
    \/ Exists(active, r.date) /\ IsDoc(active[r.date])
          /\ Contains(active[r.date].scanner_hits, r)
    \/ Exists(archive, r.date) /\ IsDoc(archive[r.date])
          /\ Contains(archive[r.date].scanner_hits, r)

\* every row of a date that has a file, active or archived, is on file
RowsOnFile ==
    \A i \in 1..Len(scanner_hits) :
        (Exists(active, scanner_hits[i].date) \/ Exists(archive, scanner_hits[i].date))
            => RowOnFile(scanner_hits[i])

\* C27: in the executions without overlapping appends, failing calls
\* included, scanner_hits never holds a record that the day's document on
\* disk lacks
C27_RowsOnlyOfWrittenEntries == RowsOnFile

\* C28: no two rows of scanner_hits have the same date and hit_id
C28_DateHitIdUnique ==
    \A i, j \in 1..Len(scanner_hits) :
        (/\ scanner_hits[i].date = scanner_hits[j].date
         /\ scanner_hits[i].hit_id = scanner_hits[j].hit_id) => i = j


\* C29: a rollover on any day after D takes the document of day D out of the
\* active directory: once archive_daily_logs has made its move, no document
\* of a day before today is left active
C29_LaterRolloverArchives ==
    [][\A p \in Procs :
          RolloverMoves(p) =>
              \A d \in DOMAIN active :
                  (d < today /\ IsDoc(active[d])) => ~Exists(active', d)]_vars

\* the requests that carry a ticker, whichever of price, change_pct and
\* rel_volume they leave out
WithTicker == {data \in Requests : data.ticker # ""}

\* C30: a /log-hit request with a non-empty ticker, arriving while the day's
\* file is readable or absent, gets past the building of its entry, whichever
\* of price, change_pct and rel_volume it leaves out, and goes on to write
\* the document
C30_AbsentFieldsStillAppend ==
    [][\A p \in Procs, data \in WithTicker :
          (LogHit(p, data) /\ (Exists(active, today) => IsDoc(active[today])))
              => pc'[p] = "write"]_vars

=============================================================================
